---------------------------- MODULE Spec2Model ----------------------------
(***************************************************************************)
(* A model of contenttools.py (jabrss): the article extractor              *)
(* extract_content with its helpers categorise, textlen, valuate, getval,  *)
(* sumval, get_tree, clean_imgs, remove_after, remove_before, and the      *)
(* plain-text lineariser html2plain.                                       *)
(*                                                                         *)
(* Strings whose characters the code inspects are sequences of             *)
(* one-character strings; None and '' are both the empty sequence where    *)
(* the code only tests truthiness.  Python 3 semantics (true division,     *)
(* insertion-ordered dict, stable sort) and lxml.html elements are         *)
(* modelled.                                                               *)
(***************************************************************************)
EXTENDS Integers, Sequences, FiniteSets, TLC

VARIABLES
    pc,        \* position of the running function
    parser,    \* the HTML2Plain instance of html2plain
    sawPre,    \* whether a pre start or end tag was fed to the parser
    nEvents,   \* number of parser events fed so far
    doc,       \* the lxml tree: node i is doc[i], in document order
    ec,        \* the local variables of extract_content
    given      \* the tree as it was handed to the function that runs

vars == <<pc, parser, sawPre, nEvents, doc, ec, given>>

(***************************************************************************)
(* Bounds of the model.                                                    *)
(***************************************************************************)
MaxEvents == 4
MaxDataLen == 2

(***************************************************************************)
(* Python string helpers.                                                  *)
(***************************************************************************)
\* the whitespace of str.split() and str.strip(); "\f" stands for every
\* whitespace character other than the first four (form feed, U+00A0, ...)
WS == {" ", "\t", "\r", "\n", "\f"}

\* the tuple (' ', '\t', '\r', '\n') of handle_data
Spaces == {" ", "\t", "\r", "\n"}

RECURSIVE SplitAcc(_, _, _)
SplitAcc(s, cur, acc) ==
    IF s = <<>>
    THEN IF cur = <<>> THEN acc ELSE Append(acc, cur)
    ELSE IF Head(s) \in WS
         THEN SplitAcc(Tail(s), <<>>, IF cur = <<>> THEN acc ELSE Append(acc, cur))
         ELSE SplitAcc(Tail(s), Append(cur, Head(s)), acc)

\* str.split(): the words of s
split(s) == SplitAcc(s, <<>>, <<>>)

RECURSIVE join(_)
\* ' '.join(words)
join(words) ==
    IF words = <<>> THEN <<>>
    ELSE IF Len(words) = 1 THEN words[1]
    ELSE words[1] \o <<" ">> \o join(Tail(words))

RECURSIVE strip(_)
\* str.strip()
strip(s) ==
    IF s = <<>> THEN s
    ELSE IF Head(s) \in WS THEN strip(Tail(s))
    ELSE IF s[Len(s)] \in WS THEN strip(SubSeq(s, 1, Len(s) - 1))
    ELSE s

DigitVal(c) ==
    CASE c = "0" -> 0 [] c = "1" -> 1 [] c = "2" -> 2 [] c = "3" -> 3
      [] c = "4" -> 4 [] c = "5" -> 5 [] c = "6" -> 6 [] c = "7" -> 7
      [] c = "8" -> 8 [] c = "9" -> 9 [] OTHER -> -1

\* the digits of a numeral, its sign dropped
Unsigned(s) ==
    LET t == strip(s) IN IF t # <<>> /\ t[1] \in {"-", "+"} THEN Tail(t) ELSE t

\* int(s) raises ValueError
IntRaises(s) ==
    LET t == Unsigned(s) IN t = <<>> \/ \E i \in 1..Len(t) : DigitVal(t[i]) < 0

RECURSIVE IntAcc(_, _)
IntAcc(s, acc) ==
    IF s = <<>> THEN acc ELSE IntAcc(Tail(s), 10 * acc + DigitVal(Head(s)))

\* int(s) for a decimal numeral
int(s) ==
    LET t == strip(s)
        m == IntAcc(Unsigned(s), 0)
    IN IF t # <<>> /\ t[1] = "-" THEN 0 - m ELSE m

RECURSIVE SplitCharAcc(_, _, _, _)
SplitCharAcc(s, c, cur, acc) ==
    IF s = <<>> THEN Append(acc, cur)
    ELSE IF Head(s) = c THEN SplitCharAcc(Tail(s), c, <<>>, Append(acc, cur))
    ELSE SplitCharAcc(Tail(s), c, Append(cur, Head(s)), acc)

\* s.split(c) for a one-character separator
splitOn(s, c) == SplitCharAcc(s, c, <<>>, <<>>)

\* s.startswith(prefix)
startswith(s, prefix) ==
    Len(s) >= Len(prefix) /\ SubSeq(s, 1, Len(prefix)) = prefix

\* s.find(c) != -1
contains(s, c) == \E i \in 1..Len(s) : s[i] = c

Min(S) == CHOOSE x \in S : \A y \in S : x <= y

Max(S) == CHOOSE x \in S : \A y \in S : x >= y

RECURSIVE SortSet(_)
\* the members of a set of integers in ascending order
SortSet(S) == IF S = {} THEN <<>> ELSE <<Min(S)>> \o SortSet(S \ {Min(S)})

(***************************************************************************)
(* html2plain: the HTML2Plain parser callbacks.                            *)
(***************************************************************************)
\* HTML2Plain.__init__
NewParser(ignore_errors) ==
    [buf |-> <<>>, processed |-> 0, errors |-> 0, ignore_errors |-> ignore_errors,
     in_pre |-> FALSE, has_space |-> TRUE, has_nl |-> TRUE]

\* HTML2Plain.handle_data
handle_data(self, data) ==
    IF ~self.in_pre /\ data # <<>>
    THEN LET l == split(data) IN
         IF l # <<>>
         THEN LET pre_space == ~self.has_space /\ data[1] \in Spaces
                  post_space == data[Len(data)] \in Spaces
                  out == (IF pre_space THEN <<" ">> ELSE <<>>) \o join(l)
                         \o (IF post_space THEN <<" ">> ELSE <<>>)
              IN [self EXCEPT !.buf = @ \o out, !.has_space = post_space,
                              !.has_nl = FALSE]
         ELSE self
    ELSE [self EXCEPT !.buf = @ \o data]

\* unichr for the code points the model feeds
unichr(n) ==
    CASE n = 10 -> "\n" [] n = 12 -> "\f" [] n = 38 -> "&" [] n = 160 -> "\f"
      [] OTHER -> "a"

\* HTML2Plain.handle_charref
handle_charref(self, name) ==
    IF IntRaises(name)
    THEN [self EXCEPT !.errors = @ + 1]
    ELSE handle_data(self, <<unichr(int(name))>>)

\* name2codepoint, restricted to the entity names the model feeds
name2codepoint == [amp |-> 38, nbsp |-> 160]

\* HTML2Plain.handle_entityref
handle_entityref(self, name) ==
    IF name \notin DOMAIN name2codepoint
    THEN [self EXCEPT !.errors = @ + 1]
    ELSE handle_data(self, <<unichr(name2codepoint[name])>>)

BlockTags == {"br", "h1", "h2", "h3", "h4", "h5", "h6", "h7", "div", "p", "pre", "tr"}

\* HTML2Plain.handle_starttag with a has_nl flag that a block tag forgets to set
starttag_block_keeps_nl(self, tag, attrs) ==
    LET s1 ==
        IF tag \in BlockTags
        THEN LET a == IF ~self.has_nl
                      THEN [self EXCEPT !.buf = Append(@, "\n"), !.has_space = TRUE]
                      ELSE self
             IN IF tag = "pre" THEN [a EXCEPT !.in_pre = TRUE] ELSE a
        ELSE IF tag = "li"
        THEN LET a == IF ~self.has_nl THEN [self EXCEPT !.buf = Append(@, "\n")] ELSE self
             IN [a EXCEPT !.buf = @ \o <<" ", "*", " ">>, !.has_nl = TRUE,
                          !.has_space = TRUE]
        ELSE self
    IN [s1 EXCEPT !.processed = @ + 1]

\* HTML2Plain.handle_starttag; attrs is a function from attribute names to values
handle_starttag(self, tag, attrs) ==
    LET s1 ==
        IF tag \in BlockTags
        THEN LET a == IF ~self.has_nl
                      THEN [self EXCEPT !.buf = Append(@, "\n"), !.has_nl = TRUE,
                                        !.has_space = TRUE]
                      ELSE self
             IN IF tag = "pre" THEN [a EXCEPT !.in_pre = TRUE] ELSE a
        ELSE IF tag = "li"
        THEN LET a == IF ~self.has_nl THEN [self EXCEPT !.buf = Append(@, "\n")] ELSE self
             IN [a EXCEPT !.buf = @ \o <<" ", "*", " ">>, !.has_nl = TRUE,
                          !.has_space = TRUE]
        ELSE IF tag = "td"
        THEN IF ~self.has_space /\ ~self.has_nl
             THEN [self EXCEPT !.buf = Append(@, " "), !.has_nl = FALSE,
                               !.has_space = TRUE]
             ELSE self
        ELSE IF tag = "img"
        THEN LET alt == IF "alt" \in DOMAIN attrs THEN attrs["alt"] ELSE <<>>
                 title == IF "title" \in DOMAIN attrs THEN attrs["title"] ELSE <<>>
             IN handle_data(self, IF alt # <<>> THEN alt ELSE title)
        ELSE self
    IN [s1 EXCEPT !.processed = @ + 1]

\* HTML2Plain.handle_endtag
handle_endtag(self, tag) ==
    LET s1 == IF tag = "pre"
              THEN [self EXCEPT !.in_pre = FALSE, !.has_nl = FALSE, !.has_space = TRUE]
              ELSE self
    IN [s1 EXCEPT !.processed = @ + 1]

\* HTML2Plain.handle_comment
handle_comment(self) == [self EXCEPT !.processed = @ + 1]

\* HTML2Plain.unknown_decl
unknown_decl(self) == [self EXCEPT !.errors = @ + 1]

\* HTML2Plain.close: TRUE when the text is returned, FALSE when None is
close_returns_text(self) ==
    self.ignore_errors \/ self.errors = 0 \/ self.processed > 3 * self.errors

(***************************************************************************)
(* The events the model feeds to the parser.                               *)
(***************************************************************************)
DataChars == {"a", " ", "\n"}

DataStrings == UNION {[1..n -> DataChars] : n \in 0..MaxDataLen}

EventTags == {"p", "br", "pre", "li", "td", "img", "span"}

ImgAttrs == {<<>>} \cup {("alt" :> a) : a \in {<<"a">>, <<"\n">>}}
            \cup {("title" :> <<"a", " ">>)}

CharRefNames == {<<"1", "0">>, <<"1", "2">>, <<"9", "7">>, <<"x">>}

EntityNames == {"amp", "nbsp", "xyz"}

Feeding == pc = "feed" /\ nEvents < MaxEvents

FeedData ==
    /\ Feeding
    /\ \E data \in DataStrings : parser' = handle_data(parser, data)
    /\ nEvents' = nEvents + 1
    /\ UNCHANGED <<pc, sawPre, doc, ec, given>>

FeedCharRef ==
    /\ Feeding
    /\ \E name \in CharRefNames : parser' = handle_charref(parser, name)
    /\ nEvents' = nEvents + 1
    /\ UNCHANGED <<pc, sawPre, doc, ec, given>>

FeedEntityRef ==
    /\ Feeding
    /\ \E name \in EntityNames : parser' = handle_entityref(parser, name)
    /\ nEvents' = nEvents + 1
    /\ UNCHANGED <<pc, sawPre, doc, ec, given>>

FeedStartTag ==
    /\ Feeding
    /\ \E tag \in EventTags :
         \E attrs \in (IF tag = "img" THEN ImgAttrs ELSE {<<>>}) :
            /\ parser' = handle_starttag(parser, tag, attrs)
            /\ sawPre' = (sawPre \/ tag = "pre")
    /\ nEvents' = nEvents + 1
    /\ UNCHANGED <<pc, doc, ec, given>>

FeedEndTag ==
    /\ Feeding
    /\ \E tag \in EventTags :
            /\ parser' = handle_endtag(parser, tag)
            /\ sawPre' = (sawPre \/ tag = "pre")
    /\ nEvents' = nEvents + 1
    /\ UNCHANGED <<pc, doc, ec, given>>

FeedComment ==
    /\ Feeding
    /\ parser' = handle_comment(parser)
    /\ nEvents' = nEvents + 1
    /\ UNCHANGED <<pc, sawPre, doc, ec, given>>

FeedUnknownDecl ==
    /\ Feeding
    /\ parser' = unknown_decl(parser)
    /\ nEvents' = nEvents + 1
    /\ UNCHANGED <<pc, sawPre, doc, ec, given>>

\* parser.close() and the return of html2plain
Close ==
    /\ pc = "feed"
    /\ pc' = IF close_returns_text(parser) THEN "text" ELSE "html"
    /\ UNCHANGED <<parser, sawPre, nEvents, doc, ec, given>>

InitPlain ==
    /\ pc = "feed"
    /\ \E ignore_errors \in BOOLEAN : parser = NewParser(ignore_errors)
    /\ sawPre = FALSE
    /\ nEvents = 0
    /\ doc = <<>>
    /\ ec = <<>>
    /\ given = <<>>

NextPlain ==
    \/ FeedData \/ FeedCharRef \/ FeedEntityRef \/ FeedStartTag \/ FeedEndTag
    \/ FeedComment \/ FeedUnknownDecl \/ Close

SpecPlain == InitPlain /\ [][NextPlain]_vars

(***************************************************************************)
(* C10: with no pre start or end tag among the events fed, the output      *)
(* buffer of html2plain never holds two consecutive newline characters.    *)
(***************************************************************************)
NoDoubleNewline(buf) ==
    \A i \in 1..(Len(buf) - 1) : ~(buf[i] = "\n" /\ buf[i + 1] = "\n")

C10_NoConsecutiveNewlines ==
    pc \in {"feed", "text", "html"} /\ ~sawPre => NoDoubleNewline(parser.buf)

\* a buffer with two newlines written by block tags, text between them,
\* after whitespace-only data that wrote nothing
C10_Witness ==
    /\ pc = "feed" /\ ~sawPre
    /\ Len(parser.buf) >= 4
    /\ Cardinality({i \in 1..Len(parser.buf) : parser.buf[i] = "\n"}) >= 2
    /\ parser.has_nl

(***************************************************************************)
(* The lxml tree.  doc[i] = [tag, par, text, tail, attrs]; par = 0 is      *)
(* getparent() = None.  Nodes are numbered in document order, which        *)
(* removals keep; a removed node keeps its subtree and its tail (lxml's    *)
(* remove moves the tail with the element).  A comment is a node of tag    *)
(* "#comment".                                                             *)
(***************************************************************************)
Node(tag, par, text, tail, attrs) ==
    [tag |-> tag, par |-> par, text |-> text, tail |-> tail, attrs |-> attrs]

Nodes(d) == 1..Len(d)

\* isinstance(n, lxml.html.HtmlElement): not a comment
IsElement(d, n) == d[n].tag # "#comment"

\* n.get(k, '')
Get(d, n, k) == IF k \in DOMAIN d[n].attrs THEN d[n].attrs[k] ELSE <<>>

ChildSet(d, n) == {i \in Nodes(d) : d[i].par = n}

\* list(n)
children(d, n) == SortSet(ChildSet(d, n))

\* n.getnext()
getnext(d, n) ==
    LET s == {j \in Nodes(d) : j > n /\ d[j].par = d[n].par}
    IN IF d[n].par = 0 \/ s = {} THEN 0 ELSE Min(s)

\* n.getprevious()
getprevious(d, n) ==
    LET s == {j \in Nodes(d) : j < n /\ d[j].par = d[n].par}
    IN IF d[n].par = 0 \/ s = {} THEN 0 ELSE Max(s)

RECURSIVE IsDesc(_, _, _)
\* n is a or lies below a
IsDesc(d, a, n) ==
    IF n = a THEN TRUE ELSE IF d[n].par = 0 THEN FALSE ELSE IsDesc(d, a, d[n].par)

Subtree(d, a) == {n \in Nodes(d) : IsDesc(d, a, n)}

\* parent.remove(n)
remove(d, n) == [d EXCEPT ![n].par = 0]

\* whether an iterator's tag filter accepts n: "" is iter(), "*" is iter('*')
Matches(d, n, kind) ==
    IF kind = "" THEN TRUE
    ELSE IF kind = "*" THEN IsElement(d, n)
    ELSE d[n].tag = kind

RECURSIVE BackOff(_, _, _)
BackOff(d, top, c) ==
    LET p == d[c].par IN
    IF p = 0 \/ p = top THEN 0
    ELSE IF getnext(d, p) # 0 THEN getnext(d, p)
    ELSE BackOff(d, top, p)

\* one step of lxml's depth-first traversal below top: children first, then
\* the next sibling, then back off through the parents
Advance(d, top, c) ==
    IF ChildSet(d, c) # {} THEN Min(ChildSet(d, c))
    ELSE IF c = top THEN 0
    ELSE IF getnext(d, c) # 0 THEN getnext(d, c)
    ELSE BackOff(d, top, c)

RECURSIVE NextMatch(_, _, _, _)
\* ElementDepthFirstIterator.__next__: the node the iterator holds ready
\* while the loop body runs on c
NextMatch(d, top, c, kind) ==
    LET a == Advance(d, top, c) IN
    IF a = 0 THEN 0
    ELSE IF Matches(d, a, kind) THEN a
    ELSE NextMatch(d, top, a, kind)

\* the first node of top.iter(kind)
FirstMatch(d, top, kind) ==
    IF Matches(d, top, kind) THEN top ELSE NextMatch(d, top, top, kind)

RECURSIVE IterFrom(_, _, _, _)
IterFrom(d, top, c, kind) ==
    IF c = 0 THEN <<>> ELSE <<c>> \o IterFrom(d, top, NextMatch(d, top, c, kind), kind)

\* list(top.iter(kind)) on a tree the loop does not restructure
iter(d, top, kind) == IterFrom(d, top, FirstMatch(d, top, kind), kind)

(***************************************************************************)
(* categorise, textlen, valuate, getval, sumval.                           *)
(***************************************************************************)
ItempropArticle == {<<"a","r","t","i","c","l","e">>,
                    <<"a","r","t","i","c","l","e","B","o","d","y">>}

ItempropText == {<<"t","e","x","t">>}

ItempropMinor == {<<"a","r","t","i","c","l","e","S","e","c","t","i","o","n">>,
                  <<"d","a","t","e","C","r","e","a","t","e","d">>,
                  <<"h","e","a","d","l","i","n","e">>,
                  <<"d","e","s","c","r","i","p","t","i","o","n">>,
                  <<"a","u","t","h","o","r">>,
                  <<"p","u","b","l","i","s","h","e","r">>}

\* the candidates of a srcset: x.strip().split() of every srcset.split(',')
SrcsetEntries(srcset) ==
    LET parts == splitOn(srcset, ",") IN [i \in 1..Len(parts) |-> split(strip(parts[i]))]

\* x[1][-1] == 'w'
EndsWithW(tok) == tok[Len(tok)] = "w"

\* int(x[1][:-1]) if x[1][-1] == 'w' else 0
CandidateWidth(x) ==
    IF EndsWithW(x[2]) THEN int(SubSeq(x[2], 1, Len(x[2]) - 1)) ELSE 0

\* categorise's candidate lambda raises: IndexError on x[1], ValueError in int
CategoriseCandidateRaises(x) ==
    \/ Len(x) < 2
    \/ EndsWithW(x[2]) /\ IntRaises(SubSeq(x[2], 1, Len(x[2]) - 1))

\* categorise(n) lets an exception escape
categorise_raises(d, n) ==
    /\ d[n].tag = "img"
    /\ Get(d, n, "src") = <<>>
    /\ Get(d, n, "srcset") # <<>>
    /\ LET xs == SrcsetEntries(Get(d, n, "srcset"))
       IN \E i \in 1..Len(xs) : CategoriseCandidateRaises(xs[i])

\* the score of an img
categorise_img(d, n) ==
    LET src == Get(d, n, "src")
        srcset == Get(d, n, "srcset")
    IN
    IF src = <<>> /\ srcset # <<>>
    THEN LET xs == SrcsetEntries(srcset)
         IN Max({CandidateWidth(xs[i]) : i \in 1..Len(xs)}) \div 10
    ELSE IF src = <<>> \/ contains(src, "?") \/ contains(src, "&") \/ contains(src, ";")
    THEN -5
    ELSE IF Get(d, n, "width") # <<>> /\ Get(d, n, "height") # <<>>
    THEN IF IntRaises(Get(d, n, "width")) \/ IntRaises(Get(d, n, "height"))
         THEN -3
         ELSE LET width == int(Get(d, n, "width"))
                  height == int(Get(d, n, "height"))
              IN IF width * height > 100 * 100 THEN (width * height) \div 16 ELSE -3
    ELSE 4 * (Len(Get(d, n, "title")) + Len(Get(d, n, "alt")))

\* categorise(n), where it returns
categorise(d, n) ==
    LET tag == d[n].tag
        base ==
          IF tag = "img" THEN categorise_img(d, n)
          ELSE IF tag = "p" THEN 20
          ELSE IF tag \in {"article", "dd", "dt", "figure", "h1", "h2", "h3", "h4",
                           "h5", "h6", "h7", "li"} THEN 10
          ELSE IF tag \in {"dl", "ol", "table", "ul"} THEN 1
          ELSE IF tag = "a"
          THEN IF Get(d, n, "onclick") # <<>> THEN -5
               ELSE IF startswith(Get(d, n, "href"), <<"h","t","t","p">>) THEN -2
               ELSE 0
          ELSE IF tag \in {"a", "b", "br", "em", "i", "div", "small", "span", "strong",
                           "tbody", "td", "thead", "tr"} THEN 0
          ELSE IF tag \in {"blink", "script"} THEN -5
          ELSE IF tag = "amp-lightbox" THEN -20
          ELSE -1
        itemprop == Get(d, n, "itemprop")
        bonus ==
          IF "itemprop" \notin DOMAIN d[n].attrs THEN 0
          ELSE IF itemprop \in ItempropArticle THEN 50
          ELSE IF itemprop \in ItempropText THEN 30
          ELSE IF itemprop \in ItempropMinor THEN 10
          ELSE 0
    IN base + bonus

RECURSIVE SumLen(_)
SumLen(words) == IF words = <<>> THEN 0 ELSE Len(Head(words)) + SumLen(Tail(words))

\* textlen(s)
textlen(s) ==
    IF s # <<>> THEN <<SumLen(split(s)), Len(split(s)) - 1>> ELSE <<0, 0>>

\* sumval(v1, v2)
sumval(v1, v2) == <<v1[1] + v2[1], v1[2] + v2[2], v1[3] + v2[3]>>

\* getval(v)
getval(v) == (100 * v[1] * v[2]) \div (v[3] + 5)

\* what one node n of p.iter() adds to (l, w, c) in valuate(p)
ValuateNode(d, p, n) ==
    LET t == textlen(d[n].text)
        u == IF n # p THEN textlen(d[n].tail) ELSE <<0, 0>>
        val == categorise(d, n)
    IN <<t[1] + u[1] + (IF val > 0 THEN val ELSE 0),
         t[2] + u[2],
         IF val > 0 THEN 0 ELSE 0 - val>>

RECURSIVE ValuateSum(_, _, _)
ValuateSum(d, p, ns) ==
    IF ns = <<>> THEN <<0, 0, 0>>
    ELSE sumval(ValuateNode(d, p, Head(ns)), ValuateSum(d, p, Tail(ns)))

\* valuate(p) lets an exception of categorise escape
valuate_raises(d, p) == \E n \in Subtree(d, p) : categorise_raises(d, n)

\* valuate(p), where it returns
valuate(d, p) ==
    sumval(<<0, 0, IF d[p].tag \notin {"p", "article", "div", "span"} THEN 3 ELSE 0>>,
           ValuateSum(d, p, iter(d, p, "")))

(***************************************************************************)
(* extract_content, lines 335-361: the body, the tags removed by name,     *)
(* amp-img renamed, and one pass of the empty-leaf loop.                   *)
(***************************************************************************)
\* html.find('body'), or html itself; html is node 1
FindBody(d) ==
    LET bs == {i \in ChildSet(d, 1) : d[i].tag = "body"}
    IN IF bs = {} THEN 1 ELSE Min(bs)

StripTags == <<"amp-ad", "amp-analytics", "amp-consent", "amp-iframe", "amp-script",
               "amp-social-share", "amp-sticky-ad", "script">>

RECURSIVE StripLoop(_, _, _, _)
\* for elem in body.iter(tag): remove elem from its parent
StripLoop(d, body, cur, tag) ==
    IF cur = 0 THEN d
    ELSE LET nxt == NextMatch(d, body, cur, tag)
             d2 == IF d[cur].par # 0 THEN remove(d, cur) ELSE d
         IN StripLoop(d2, body, nxt, tag)

RECURSIVE StripAll(_, _, _)
StripAll(d, body, tags) ==
    IF tags = <<>> THEN d
    ELSE StripAll(StripLoop(d, body, FirstMatch(d, body, Head(tags)), Head(tags)),
                  body, Tail(tags))

\* for elem in body.iter('amp-img'): elem.tag = 'img'
RenameAmpImg(d, body) ==
    LET hit == {n \in Nodes(d) : \E i \in 1..Len(iter(d, body, "amp-img")) :
                                      iter(d, body, "amp-img")[i] = n}
    IN [n \in Nodes(d) |-> IF n \in hit THEN [d[n] EXCEPT !.tag = "img"] ELSE d[n]]

\* a blank test that forgets to strip
BlankNoStrip(s) == s = <<>>

\* not s or not s.strip()
Blank(s) == s = <<>> \/ strip(s) = <<>>

\* the test of lines 355-357
EmptyLeaf(d, n) ==
    /\ ChildSet(d, n) = {}
    /\ d[n].tag # "img"
    /\ Blank(d[n].text)
    /\ Blank(d[n].tail)

\* lines 358-360: elem is taken out of the tree
Removable(d, n) == EmptyLeaf(d, n) /\ d[n].par # 0

\* work_to_do set for every empty leaf, also one that has no parent
WorkAfterUnguarded(d, n, work) == IF EmptyLeaf(d, n) THEN TRUE ELSE work

\* line 361: work_to_do after the loop body has run on elem
WorkAfter(d, n, work) == IF Removable(d, n) THEN TRUE ELSE work

RECURSIVE SanitizeLoop(_, _, _, _)
\* for elem in body.iter('*'): one pass; returns the tree and work_to_do
SanitizeLoop(d, body, cur, work) ==
    IF cur = 0 THEN [doc |-> d, work_to_do |-> work]
    ELSE LET nxt == NextMatch(d, body, cur, "*")
         IN SanitizeLoop(IF Removable(d, cur) THEN remove(d, cur) ELSE d,
                         body, nxt, WorkAfter(d, cur, work))

\* one pass of the while loop
SanitizeOnce(d, body) == SanitizeLoop(d, body, FirstMatch(d, body, "*"), FALSE)

(***************************************************************************)
(* get_tree and the comparison of difflib.Differ (lines 305-329, 363-390). *)
(* A summary entry is <<label, t>>; a tag label is <<tag>>, a depth label  *)
(* the sequence of its '+' or '-' characters.                              *)
(***************************************************************************)
RECURSIVE get_tree(_, _, _)
RECURSIVE GetTreeChildren(_, _, _, _, _)

\* the loop over the children: the entries, the tails' lengths, the depth
GetTreeChildren(d, kids, depth, t, l) ==
    IF kids = <<>> THEN [l |-> l, t |-> t, depth |-> depth]
    ELSE LET child == Head(kids) IN
         IF IsElement(d, child)
         THEN LET sub == get_tree(d, child, depth + 1)
              IN GetTreeChildren(d, Tail(kids), sub.depth,
                                 t + Len(strip(d[child].tail)), l \o sub.l)
         ELSE GetTreeChildren(d, Tail(kids), depth, t, l)

\* get_tree(elem, depth): [l |-> the summary, depth |-> the depth returned]
get_tree(d, elem, depth) ==
    LET mark == IF depth < 0 THEN << <<[i \in 1..(0 - depth) |-> "-"], 0>> >>
                ELSE IF depth > 0 THEN << <<[i \in 1..depth |-> "+"], 0>> >>
                ELSE <<>>
        r == GetTreeChildren(d, children(d, elem), 0, Len(strip(d[elem].text)), <<>>)
    IN [l |-> mark \o << << <<d[elem].tag>>, r.t >> >> \o r.l, depth |-> r.depth - 1]

\* SequenceMatcher.find_longest_match on a[alo:ahi], b[blo:bhi] (0-based):
\* the longest block, the earliest in a, then the earliest in b
find_longest_match(a, b, alo, ahi, blo, bhi) ==
    LET blocks == {m \in (alo..(ahi - 1)) \X (blo..(bhi - 1)) \X (1..(ahi - alo)) :
                     /\ m[1] + m[3] <= ahi
                     /\ m[2] + m[3] <= bhi
                     /\ \A k \in 0..(m[3] - 1) : a[m[1] + k + 1] = b[m[2] + k + 1]}
    IN IF blocks = {} THEN <<alo, blo, 0>>
       ELSE LET size == Max({m[3] : m \in blocks})
                i == Min({m[1] : m \in {x \in blocks : x[3] = size}})
                j == Min({m[2] : m \in {x \in blocks : x[3] = size /\ x[1] = i}})
            IN <<i, j, size>>

RECURSIVE MatchingBlocks(_, _, _, _, _, _)
\* SequenceMatcher.get_matching_blocks, without the closing sentinel
MatchingBlocks(a, b, alo, ahi, blo, bhi) ==
    LET m == find_longest_match(a, b, alo, ahi, blo, bhi) IN
    IF m[3] = 0 THEN <<>>
    ELSE (IF alo < m[1] /\ blo < m[2]
          THEN MatchingBlocks(a, b, alo, m[1], blo, m[2]) ELSE <<>>)
         \o <<m>>
         \o (IF m[1] + m[3] < ahi /\ m[2] + m[3] < bhi
             THEN MatchingBlocks(a, b, m[1] + m[3], ahi, m[2] + m[3], bhi) ELSE <<>>)

Repeat(c, n) == [i \in 1..n |-> c]

RECURSIVE DiffLines(_, _, _)
\* the first character of every line Differ.compare yields: ' ' for a line
\* of both, '-' and '+' for a line of one (no two distinct entries are
\* similar enough for Differ to pair them)
DiffLines(blocks, i, j) ==
    IF blocks = <<>> THEN <<>>
    ELSE LET m == Head(blocks)
             na == m[1] - i
             nb == m[2] - j
             gap == IF nb < na THEN Repeat("+", nb) \o Repeat("-", na)
                    ELSE Repeat("-", na) \o Repeat("+", nb)
         IN gap \o Repeat(" ", m[3]) \o DiffLines(Tail(blocks), m[1] + m[3], m[2] + m[3])

compare(a, b) ==
    DiffLines(MatchingBlocks(a, b, 0, Len(a), 0, Len(b)) \o << <<Len(a), Len(b), 0>> >>,
              0, 0)

RECURSIVE MaxCLines(_, _, _, _)
\* lines 372-381
MaxCLines(lines, clines, dlines, maxclines) ==
    IF lines = <<>> THEN maxclines
    ELSE LET c == IF Head(lines) = " " THEN clines + 1 ELSE clines
             dl == IF Head(lines) = " " THEN dlines ELSE dlines + 1
         IN MaxCLines(Tail(lines), c, dl,
                      IF c >= dl /\ c > maxclines THEN c ELSE maxclines)

RECURSIVE SumT(_)
SumT(tree) == IF tree = <<>> THEN 0 ELSE Head(tree)[2] + SumT(Tail(tree))

\* a comparison that takes the sparser previous sibling for the denser one
PrevSparser(prev_tree, cur_tree) ==
    SumT(prev_tree) * Len(cur_tree) < SumT(cur_tree) * Len(prev_tree)

\* prev_text / len(prev_tree) > cur_text / len(cur_tree)
PrevDenser(prev_tree, cur_tree) ==
    SumT(prev_tree) * Len(cur_tree) > SumT(cur_tree) * Len(prev_tree)

\* the summaries of prev and elem match: maxclines >= 6
SummariesMatch(d, prev, elem) ==
    MaxCLines(compare(get_tree(d, prev, 0).l, get_tree(d, elem, 0).l), 0, 0, 0) >= 6

\* lines 364-368: elem has a previous sibling of its tag that is gated too
GatedPair(d, prev, elem) ==
    /\ prev # 0
    /\ d[prev].tag = d[elem].tag
    /\ Get(d, prev, "amp-access") # <<>>

\* the body of the loop of lines 363-390 for one elem
PaywallStep(d, elem) ==
    LET prev == getprevious(d, elem) IN
    IF /\ GatedPair(d, prev, elem)
       /\ SummariesMatch(d, prev, elem)
       /\ PrevDenser(get_tree(d, prev, 0).l, get_tree(d, elem, 0).l)
       /\ d[elem].par # 0
    THEN remove(d, elem)
    ELSE d

RECURSIVE PaywallLoop(_, _)
PaywallLoop(d, elems) ==
    IF elems = <<>> THEN d ELSE PaywallLoop(PaywallStep(d, Head(elems)), Tail(elems))

\* body.findall('.//*[@amp-access]')
Gated(d, body) ==
    SortSet({n \in Subtree(d, body) :
               n # body /\ IsElement(d, n) /\ "amp-access" \in DOMAIN d[n].attrs})

(***************************************************************************)
(* The block scorer and the container voter (lines 393-443).  A dict is    *)
(* the sequence of its <<key, value>> items in insertion order.            *)
(***************************************************************************)
HasKey(dict, k) == \E i \in 1..Len(dict) : dict[i][1] = k

Lookup(dict, k, default) ==
    IF HasKey(dict, k) THEN dict[CHOOSE i \in 1..Len(dict) : dict[i][1] = k][2]
    ELSE default

Store(dict, k, v) ==
    IF HasKey(dict, k)
    THEN [i \in 1..Len(dict) |-> IF dict[i][1] = k THEN <<k, v>> ELSE dict[i]]
    ELSE Append(dict, <<k, v>>)

\* topnodes[parent] = sumval(topnodes.get(parent, (0, 0, 0)), val)
Accumulate(topnodes, parent, val) ==
    Store(topnodes, parent, sumval(Lookup(topnodes, parent, <<0, 0, 0>>), val))

RECURSIVE ScoreBlocks(_, _, _)
\* lines 394-396 for the elements ps of one tag
ScoreBlocks(d, ps, topnodes) ==
    IF ps = <<>> THEN topnodes
    ELSE ScoreBlocks(d, Tail(ps),
                     Accumulate(topnodes, d[Head(ps)].par, valuate(d, Head(ps))))

RECURSIVE ScoreTags(_, _, _, _)
ScoreTags(d, body, tags, topnodes) ==
    IF tags = <<>> THEN topnodes
    ELSE ScoreTags(d, body, Tail(tags),
                   ScoreBlocks(d, iter(d, body, Head(tags)), topnodes))

RECURSIVE ScoreImgs(_, _, _)
\* lines 398-402
ScoreImgs(d, imgs, topnodes) ==
    IF imgs = <<>> THEN topnodes
    ELSE LET l == categorise(d, Head(imgs)) IN
         ScoreImgs(d, Tail(imgs),
                   IF l > 0 THEN Accumulate(topnodes, d[Head(imgs)].par, <<l, 1, 1>>)
                   ELSE topnodes)

BlockTagsScored == <<"p", "li", "dd", "dt", "figure">>

\* lines 393-402 let an exception of categorise escape
ScoreRaises(d, body) ==
    \/ \E i \in 1..Len(BlockTagsScored) :
         \E k \in 1..Len(iter(d, body, BlockTagsScored[i])) :
            valuate_raises(d, iter(d, body, BlockTagsScored[i])[k])
    \/ \E k \in 1..Len(iter(d, body, "img")) : categorise_raises(d, iter(d, body, "img")[k])

\* topnodes after lines 393-402
Score(d, body) ==
    ScoreImgs(d, iter(d, body, "img"), ScoreTags(d, body, BlockTagsScored, <<>>))

RECURSIVE InsertDesc(_, _)
InsertDesc(sorted, x) ==
    IF sorted = <<>> THEN <<x>>
    ELSE IF Head(sorted)[2] >= x[2] THEN <<Head(sorted)>> \o InsertDesc(Tail(sorted), x)
    ELSE <<x>> \o sorted

RECURSIVE SortDesc(_, _)
SortDesc(items, sorted) ==
    IF items = <<>> THEN sorted ELSE SortDesc(Tail(items), InsertDesc(sorted, Head(items)))

\* lines 404, 408: toplist, sorted by rank, highest first (the sort is stable)
TopList(topnodes) ==
    SortDesc([i \in 1..Len(topnodes) |-> <<topnodes[i][1], getval(topnodes[i][2])>>], <<>>)

\* the weighting factor with its two branches swapped
WeighingSwapped(d, toplist) ==
    IF d[toplist[1][1]].tag \in {"dl", "ol", "ul"} THEN 2 ELSE 4

\* lines 409-412
Weighing(d, toplist) ==
    IF d[toplist[1][1]].tag \in {"dl", "ol", "ul"} THEN 4 ELSE 2

RECURSIVE SelectSeq2(_, _, _)
SelectSeq2(seq, Test(_, _), arg) ==
    IF seq = <<>> THEN <<>>
    ELSE (IF Test(Head(seq), arg) THEN <<Head(seq)>> ELSE <<>>)
         \o SelectSeq2(Tail(seq), Test, arg)

\* the filter of line 415
Retained(d, toplist) ==
    LET Keep(x, w) == w * x[2] >= toplist[1][2]
    IN SelectSeq2(toplist, Keep, Weighing(d, toplist))

MaxOf(a, b) == IF a >= b THEN a ELSE b

MinOf(a, b) == IF a <= b THEN a ELSE b

RECURSIVE Climb(_, _, _, _)
\* the while loop of lines 417-423; st = [paths, article, artnesting]
Climb(d, node, nesting, st) ==
    IF node = 0 THEN st
    ELSE LET info == Lookup(st.paths, node, <<0, 0>>)
             st1 == IF d[node].tag = "article"
                    THEN [st EXCEPT !.article = node, !.artnesting = nesting]
                    ELSE st
         IN Climb(d, d[node].par, nesting + 1,
                  [st1 EXCEPT !.paths = Store(@, node,
                                              <<info[1] + 1, MaxOf(info[2], nesting)>>)])

RECURSIVE VotePaths(_, _, _)
\* the for loop of lines 415-423
VotePaths(d, tops, st) ==
    IF tops = <<>> THEN st
    ELSE VotePaths(d, Tail(tops), Climb(d, d[Head(tops)[1]].par, 2, st))

PairLeq(x, y) == x[1] < y[1] \/ (x[1] = y[1] /\ x[2] <= y[2])

RECURSIVE InsertAsc(_, _)
InsertAsc(sorted, x) ==
    IF sorted = <<>> THEN <<x>>
    ELSE IF PairLeq(Head(sorted)[2], x[2])
         THEN <<Head(sorted)>> \o InsertAsc(Tail(sorted), x)
    ELSE <<x>> \o sorted

RECURSIVE SortAsc(_, _)
\* pathlist.sort(key=lambda x: x[1])
SortAsc(items, sorted) ==
    IF items = <<>> THEN sorted ELSE SortAsc(Tail(items), InsertAsc(sorted, Head(items)))

RECURSIVE FirstOther(_, _, _)
\* the for loop of lines 438-441: [top, nesting] when it ends
FirstOther(rest, pathnr, cur) ==
    IF rest = <<>> THEN cur
    ELSE IF Head(rest)[2][1] # pathnr
         THEN [top |-> Head(rest)[1], nesting |-> Head(rest)[2][2]]
    ELSE FirstOther(Tail(rest), pathnr, [cur EXCEPT !.top = Head(rest)[1]])

\* lines 432-443: the container and the nesting the voting chooses
ChooseByPaths(pathlist, maxp, lastTop) ==
    IF maxp > 1
    THEN LET Enough(x, m) == x[2][1] >= (m + 1) \div 2
             pl == SelectSeq2(pathlist, Enough, maxp)
             first == [top |-> pl[1][1], nesting |-> pl[1][2][2]]
         IN IF pl[1][2][1] = maxp \div 2
            THEN FirstOther(Tail(pl), pl[1][2][1], first)
            ELSE first
    ELSE [top |-> lastTop, nesting |-> 1]

\* lines 404-443 let an exception escape: a None key of topnodes (the tag
\* or the parent of None), or no ancestor that got a vote (pathlist[-1])
VoteRaises(d, topnodes) ==
    LET toplist == TopList(topnodes) IN
    /\ toplist # <<>>
    /\ \/ toplist[1][1] = 0
       \/ LET tops == Retained(d, toplist) IN
          \/ \E i \in 1..Len(tops) : tops[i][1] = 0
          \/ VotePaths(d, tops, [paths |-> <<>>, article |-> 0, artnesting |-> 0]).paths
               = <<>>
          \/ LET st == VotePaths(d, tops,
                                 [paths |-> <<>>, article |-> 0, artnesting |-> 0])
             IN st.article # 0 /\ (valuate_raises(d, tops[Len(tops)][1])
                                    \/ valuate_raises(d, st.article))

\* lines 408-443, where they return: [top, nesting]
Vote(d, topnodes) ==
    LET toplist == TopList(topnodes)
        tops == Retained(d, toplist)
        st == VotePaths(d, tops, [paths |-> <<>>, article |-> 0, artnesting |-> 0])
        pathlist == SortAsc(st.paths, <<>>)
        maxp == pathlist[Len(pathlist)][2][1]
        lastTop == tops[Len(tops)][1]
    IN IF st.article # 0 /\ 4 * valuate(d, lastTop)[1] < valuate(d, st.article)[1]
       THEN [top |-> st.article, nesting |-> st.artnesting]
       ELSE ChooseByPaths(pathlist, maxp, lastTop)

(***************************************************************************)
(* The content walker (lines 445-484).                                     *)
(***************************************************************************)
\* the second character of the tags that start with 'h'
HSecond == [h1 |-> "1", h2 |-> "2", h3 |-> "3", h4 |-> "4", h5 |-> "5", h6 |-> "6",
            h7 |-> "7", head |-> "e", header |-> "e", hgroup |-> "g", hr |-> "r",
            html |-> "t"]

\* p.tag.startswith('h')
StartsWithH(tag) == tag \in DOMAIN HSecond

\* int(p.tag[1]) raises ValueError
HeaderLevelRaises(tag) == IntRaises(<<HSecond[tag]>>)

RECURSIVE Enclosing(_, _, _, _)
\* the while loop of lines 470-473: [encl, i]
Enclosing(d, top, encl, i) ==
    IF d[encl].par # 0 /\ d[encl].par # top
    THEN Enclosing(d, top, d[encl].par, i - 1)
    ELSE [encl |-> encl, i |-> i]

\* towrite of lines 464-476 for the element q
ToWrite(d, top, q, nesting) ==
    StartsWithH(d[q].tag) \/ Enclosing(d, top, q, nesting).i > 0

\* the body of the loop of lines 447-484 for one p below top
WalkStep(d, top, nesting, p, w) ==
    IF categorise_raises(d, p) THEN [w EXCEPT !.raised = TRUE]
    ELSE IF categorise(d, p) <= 0 THEN w
    ELSE LET q == IF d[p].tag = "img" /\ d[p].par # top THEN d[p].par ELSE p
             isH == StartsWithH(d[q].tag)
         IN IF isH /\ HeaderLevelRaises(d[q].tag) THEN [w EXCEPT !.raised = TRUE]
            ELSE LET hh == IF isH THEN MinOf(w.highesthdr, int(<<HSecond[d[q].tag]>>))
                           ELSE w.highesthdr
                     encl == Enclosing(d, top, q, nesting).encl
                 IN IF ToWrite(d, top, q, nesting) /\ encl \notin w.visited
                    THEN [w EXCEPT !.highesthdr = hh,
                                   !.visited = @ \cup Subtree(d, encl),
                                   !.cleared = @ \cup {encl},
                                   !.content = Append(@, encl)]
                    ELSE [w EXCEPT !.highesthdr = hh]

RECURSIVE WalkLoop(_, _, _, _, _)
WalkLoop(d, top, nesting, ps, w) ==
    IF ps = <<>> \/ w.raised THEN w
    ELSE WalkLoop(d, top, nesting, Tail(ps), WalkStep(d, top, nesting, Head(ps), w))

\* lines 445-484: [highesthdr, content, visited, cleared, raised]; cleared
\* holds the elements whose tail the walker sets to ''
Walk(d, top, nesting) ==
    LET w0 == [highesthdr |-> 7, content |-> <<>>, visited |-> {}, cleared |-> {},
               raised |-> FALSE]
    IN IF d[top].tag \in {"dl", "ol", "ul"}
       THEN [w0 EXCEPT !.content = <<top>>, !.cleared = {top}]
       ELSE WalkLoop(d, top, nesting, Tail(iter(d, top, "")), w0)

\* elem.tail = '' for the elements of a set
ClearTails(d, ns) ==
    [n \in Nodes(d) |-> IF n \in ns THEN [d[n] EXCEPT !.tail = <<>>] ELSE d[n]]

(***************************************************************************)
(* remove_after, remove_before and the heading recovery (lines 166-180,    *)
(* 486-526).                                                               *)
(***************************************************************************)
RECURSIVE remove_after(_, _)
remove_after(d, elem) ==
    IF d[elem].par = 0 THEN d
    ELSE remove_after([n \in Nodes(d) |->
                          IF n > elem /\ d[n].par = d[elem].par
                          THEN [d[n] EXCEPT !.par = 0] ELSE d[n]],
                      d[elem].par)

RECURSIVE remove_before(_, _)
remove_before(d, elem) ==
    IF d[elem].par = 0 THEN d
    ELSE remove_before([n \in Nodes(d) |->
                           IF n < elem /\ d[n].par = d[elem].par
                           THEN [d[n] EXCEPT !.par = 0] ELSE d[n]],
                       d[elem].par)

\* 'h%d' % (i,)
HTag(i) == CASE i = 1 -> "h1" [] i = 2 -> "h2" [] i = 3 -> "h3" [] i = 4 -> "h4"
             [] i = 5 -> "h5" [] i = 6 -> "h6"

\* the last element of body.iter('h<i>'), 0 for None
LastHeading(d, body, i) ==
    LET hs == iter(d, body, HTag(i)) IN IF hs = <<>> THEN 0 ELSE hs[Len(hs)]

\* lines 504-507 once remove_before has run on d1: the heading leaves the tree
DetachHeading(d1, elem, i, r) ==
    [doc |-> IF d1[elem].par # 0 THEN remove(d1, elem) ELSE d1,
     headers |-> Append(r.headers, elem),
     parent |-> d1[elem].par,
     lowesthdr |-> i]

\* lines 501-508 for the heading elem of level i
TakeHeading(d, elem, i, r) ==
    DetachHeading(remove_before(ClearTails(d, {elem}), elem), elem, i, r)

RECURSIVE Outermost(_, _, _, _)
RECURSIVE OutermostAt(_, _, _, _, _)
\* lines 500-508 with elem the last heading of level i, 0 for None
OutermostAt(body, i, highesthdr, r, elem) ==
    IF elem = 0 THEN Outermost(body, i + 1, highesthdr, r)
    ELSE TakeHeading(r.doc, elem, i, r)

\* the for loop of lines 495-508; r = [doc, headers, parent, lowesthdr]
Outermost(body, i, highesthdr, r) ==
    IF i >= highesthdr THEN r
    ELSE OutermostAt(body, i, highesthdr, r, LastHeading(r.doc, body, i))

RECURSIVE HarvestLoop(_, _, _)
\* the for loop of lines 512-518 over body.iter()
HarvestLoop(body, cur, r) ==
    IF cur = 0 THEN r
    ELSE LET d == r.doc
             nxt == NextMatch(d, body, cur, "")
         IN IF d[cur].tag \in {"h2", "h3", "h4", "h5", "h6"}
            THEN LET d1 == ClearTails(d, {cur})
                 IN HarvestLoop(body, nxt,
                       [r EXCEPT !.doc = IF d[cur].par # 0 THEN remove(d1, cur) ELSE d1,
                                 !.headers = Append(@, cur),
                                 !.parent = d[cur].par])
            ELSE HarvestLoop(body, nxt, r)

RECURSIVE SelectElements(_, _)
SelectElements(d, ns) ==
    IF ns = <<>> THEN <<>>
    ELSE (IF IsElement(d, Head(ns)) THEN <<Head(ns)>> ELSE <<>>)
         \o SelectElements(d, Tail(ns))

\* a recovery that harvests no sibling of the headings
HarvestNoSiblings(r) == r

\* lines 520-524: the children of the last parent join the headers
HarvestSiblings(r) ==
    IF r.parent # 0
    THEN LET kids == SelectElements(r.doc, children(r.doc, r.parent))
         IN [r EXCEPT !.doc = ClearTails(@, {kids[i] : i \in 1..Len(kids)}),
                      !.headers = @ \o kids]
    ELSE r

\* lines 487-491 once remove_after has run on d1: top leaves the tree
DetachTop(d1, top) ==
    [doc |-> IF d1[top].par # 0 THEN remove(d1, top) ELSE d1,
     headers |-> <<>>, parent |-> d1[top].par, lowesthdr |-> 0]

\* lines 511-524
Harvest(body, r1) ==
    IF r1.lowesthdr # 0
    THEN HarvestSiblings(HarvestLoop(body, FirstMatch(r1.doc, body, ""), r1))
    ELSE r1

\* lines 486-524: [doc, headers, parent, lowesthdr]
Recover(d, body, top, highesthdr) ==
    Harvest(body, Outermost(body, 1, highesthdr, DetachTop(remove_after(d, top), top)))

(***************************************************************************)
(* clean_imgs (lines 283-303).                                             *)
(***************************************************************************)
\* the characters of the urls the model uses, in code point order
CodeOrder == <<".", "/", "0", "1", "2", "3", "4", "5", "6", "7", "8", "9",
               "a", "b", "c", "d", "e", "f", "g", "j", "p", "w", "x">>

Code(c) == CHOOSE i \in 1..Len(CodeOrder) : CodeOrder[i] = c

RECURSIVE StrLess(_, _)
\* a < b for two str
StrLess(a, b) ==
    IF b = <<>> THEN FALSE
    ELSE IF a = <<>> THEN TRUE
    ELSE IF Head(a) = Head(b) THEN StrLess(Tail(a), Tail(b))
    ELSE Code(Head(a)) < Code(Head(b))

\* x < y for two (width, url) tuples
CandLess(x, y) == x[1] < y[1] \/ (x[1] = y[1] /\ StrLess(x[2], y[2]))

RECURSIVE InsertCand(_, _)
InsertCand(sorted, x) ==
    IF sorted = <<>> THEN <<x>>
    ELSE IF CandLess(x, Head(sorted)) THEN <<x>> \o sorted
    ELSE <<Head(sorted)>> \o InsertCand(Tail(sorted), x)

RECURSIVE SortCands(_, _)
\* srcSet.sort()
SortCands(items, sorted) ==
    IF items = <<>> THEN sorted
    ELSE SortCands(Tail(items), InsertCand(sorted, Head(items)))

\* the lambda of lines 290-292 raises: ValueError in int, IndexError on x[0]
CleanCandidateRaises(x) ==
    \/ x = <<>>
    \/ Len(x) > 1 /\ EndsWithW(x[2]) /\ IntRaises(SubSeq(x[2], 1, Len(x[2]) - 1))

\* the lambda of lines 290-292
CleanCandidate(x) ==
    <<IF Len(x) > 1 /\ EndsWithW(x[2]) THEN int(SubSeq(x[2], 1, Len(x[2]) - 1)) ELSE 0,
      x[1]>>

\* lines 288-294: the candidates of positive width, sorted
SortedCandidates(srcset) ==
    LET xs == SrcsetEntries(srcset)
        Positive(c, z) == c[1] > z
    IN SortCands(SelectSeq2([i \in 1..Len(xs) |-> CleanCandidate(xs[i])], Positive, 0),
                 <<>>)

\* bisect.bisect_left(srcSet, x)
bisect_left(srcSet, x) == Cardinality({i \in 1..Len(srcSet) : CandLess(srcSet[i], x)})

\* a choice that takes the entry at idx, the first of width >= 600
ChosenAtIdx(srcSet) ==
    LET idx == bisect_left(srcSet, <<600, <<>>>>) IN
    IF idx # 0 /\ idx < Len(srcSet) /\ srcSet[idx][1] >= 300
    THEN <<srcSet[idx + 1]>> ELSE <<>>

\* lines 296-298: the candidate whose url becomes src, <<>> when there is none
Chosen(srcSet) ==
    LET idx == bisect_left(srcSet, <<600, <<>>>>) IN
    IF idx # 0 /\ srcSet[idx][1] >= 300 THEN <<srcSet[idx]>> ELSE <<>>

\* n.clear(): no text, no tail, no attribute, no child
clear(d, n) ==
    [i \in Nodes(d) |->
        IF i = n THEN [d[i] EXCEPT !.text = <<>>, !.tail = <<>>, !.attrs = <<>>]
        ELSE IF d[i].par = n THEN [d[i] EXCEPT !.par = 0]
        ELSE d[i]]

\* n.set(k, None) on an lxml.html element leaves the attribute without a value
SetAttr(attrs, k, v) == [x \in DOMAIN attrs \cup {k} |-> IF x = k THEN v ELSE attrs[x]]

\* the body of the loop of clean_imgs for one img n, where it returns
CleanImg(d, n) ==
    IF categorise(d, n) < 0 THEN clear(d, n)
    ELSE IF Get(d, n, "srcset") # <<>>
    THEN LET c == Chosen(SortedCandidates(Get(d, n, "srcset"))) IN
         IF c # <<>>
         THEN [d EXCEPT ![n].attrs =
                  SetAttr(SetAttr(SetAttr(SetAttr(@, "src", c[1][2]), "width", <<>>),
                                  "height", <<>>), "srcset", <<>>)]
         ELSE d
    ELSE d

\* the body of the loop of clean_imgs lets an exception escape
CleanImgRaises(d, n) ==
    \/ categorise_raises(d, n)
    \/ /\ categorise(d, n) >= 0
       /\ Get(d, n, "srcset") # <<>>
       /\ LET xs == SrcsetEntries(Get(d, n, "srcset"))
          IN \E i \in 1..Len(xs) : CleanCandidateRaises(xs[i])

RECURSIVE CleanLoop(_, _, _)
\* for n in elem.iter('img'); r = [doc, raised]
CleanLoop(top, cur, r) ==
    IF cur = 0 \/ r.raised THEN r
    ELSE LET nxt == NextMatch(r.doc, top, cur, "img") IN
         IF CleanImgRaises(r.doc, cur) THEN [r EXCEPT !.raised = TRUE]
         ELSE CleanLoop(top, nxt, [r EXCEPT !.doc = CleanImg(@, cur)])

\* clean_imgs(elem)
clean_imgs(r, elem) == CleanLoop(elem, FirstMatch(r.doc, elem, "img"), r)

RECURSIVE CleanAll(_, _)
\* line 527: clean_imgs on every fragment in turn; the copies that
\* html_cleaner.clean_html returns stand for the fragments themselves
CleanAll(r, frags) ==
    IF frags = <<>> \/ r.raised THEN r
    ELSE CleanAll(clean_imgs(r, Head(frags)), Tail(frags))

(***************************************************************************)
(* extract_content as steps.                                               *)
(***************************************************************************)
NoCall ==
    [body |-> 0, work_to_do |-> FALSE, passes |-> 0, topnodes |-> <<>>, leader |-> 0,
     weighing |-> 0, top |-> 0, nesting |-> 0, highesthdr |-> 0, content |-> <<>>,
     headers |-> <<>>, result |-> <<>>]

\* lines 333-350
DoStrip ==
    /\ pc = "call"
    /\ LET body == FindBody(doc) IN
       /\ doc' = RenameAmpImg(StripAll(doc, body, StripTags), body)
       /\ ec' = [NoCall EXCEPT !.body = body, !.work_to_do = TRUE]
    /\ pc' = "sanitize"
    /\ UNCHANGED <<parser, sawPre, nEvents, given>>

\* lines 351-361: one pass of the while loop
DoSanitizePass ==
    /\ pc = "sanitize"
    /\ LET r == SanitizeOnce(doc, ec.body) IN
       /\ doc' = r.doc
       /\ ec' = [ec EXCEPT !.work_to_do = r.work_to_do, !.passes = @ + 1]
       /\ pc' = IF r.work_to_do THEN "sanitize" ELSE "paywall"
    /\ UNCHANGED <<parser, sawPre, nEvents, given>>

\* lines 363-390
DoPaywall ==
    /\ pc = "paywall"
    /\ doc' = PaywallLoop(doc, Gated(doc, ec.body))
    /\ pc' = "score"
    /\ UNCHANGED <<ec, parser, sawPre, nEvents, given>>

\* lines 393-402
DoScore ==
    /\ pc = "score"
    /\ IF ScoreRaises(doc, ec.body)
       THEN pc' = "raised" /\ ec' = ec
       ELSE pc' = "vote" /\ ec' = [ec EXCEPT !.topnodes = Score(doc, ec.body)]
    /\ UNCHANGED <<doc, parser, sawPre, nEvents, given>>

\* lines 404-443
DoVote ==
    /\ pc = "vote"
    /\ IF ec.topnodes = <<>>
       THEN pc' = "returned" /\ ec' = [ec EXCEPT !.result = <<>>]
       ELSE IF VoteRaises(doc, ec.topnodes)
       THEN pc' = "raised" /\ ec' = ec
       ELSE LET v == Vote(doc, ec.topnodes)
                toplist == TopList(ec.topnodes)
            IN /\ pc' = "walk"
               /\ ec' = [ec EXCEPT !.leader = toplist[1][1],
                                   !.weighing = Weighing(doc, toplist),
                                   !.top = v.top, !.nesting = v.nesting]
    /\ UNCHANGED <<doc, parser, sawPre, nEvents, given>>

\* lines 445-484
DoWalk ==
    /\ pc = "walk"
    /\ LET w == Walk(doc, ec.top, ec.nesting) IN
       IF w.raised
       THEN pc' = "raised" /\ UNCHANGED <<doc, ec>>
       ELSE /\ pc' = "recover"
            /\ doc' = ClearTails(doc, w.cleared)
            /\ ec' = [ec EXCEPT !.highesthdr = w.highesthdr, !.content = w.content]
    /\ UNCHANGED <<parser, sawPre, nEvents, given>>

\* lines 486-526
DoRecover ==
    /\ pc = "recover"
    /\ LET r == Recover(doc, ec.body, ec.top, ec.highesthdr) IN
       /\ doc' = r.doc
       /\ ec' = [ec EXCEPT !.headers = r.headers \o ec.content]
    /\ pc' = "clean"
    /\ UNCHANGED <<parser, sawPre, nEvents, given>>

\* line 527
DoClean ==
    /\ pc = "clean"
    /\ LET r == CleanAll([doc |-> doc, raised |-> FALSE], ec.headers) IN
       IF r.raised
       THEN pc' = "raised" /\ UNCHANGED <<doc, ec>>
       ELSE pc' = "returned" /\ doc' = r.doc /\ ec' = [ec EXCEPT !.result = ec.headers]
    /\ UNCHANGED <<parser, sawPre, nEvents, given>>

Extract ==
    \/ DoStrip \/ DoSanitizePass \/ DoPaywall \/ DoScore \/ DoVote \/ DoWalk
    \/ DoRecover \/ DoClean

(***************************************************************************)
(* Documents handed to extract_content: an html root, with or without a    *)
(* body, grown one node at a time in document order.                       *)
(***************************************************************************)
MaxFree == 3

NoAttrs == <<>>

Words == <<"a", "a", " ", "b", "b">>

\* what a new node can be: tag, text, tail, attributes
Kinds ==
    { [tag |-> "div", text |-> <<>>, tail |-> <<" ">>, attrs |-> NoAttrs],
      [tag |-> "span", text |-> <<>>, tail |-> <<"x">>, attrs |-> NoAttrs],
      [tag |-> "p", text |-> Words, tail |-> <<>>, attrs |-> NoAttrs],
      [tag |-> "img", text |-> <<>>, tail |-> <<>>,
       attrs |-> ("src" :> <<"a">>) @@ ("title" :> <<"t">>)],
      [tag |-> "img", text |-> <<>>, tail |-> <<>>, attrs |-> "srcset" :> <<"a">>],
      [tag |-> "#comment", text |-> <<"c">>, tail |-> <<>>, attrs |-> NoAttrs] }

Roots ==
    { <<Node("html", 0, <<>>, <<>>, NoAttrs)>>,
      <<Node("html", 0, <<>>, <<>>, NoAttrs), Node("body", 1, <<>>, <<>>, NoAttrs)>> }

\* the open elements under which the parser can put the next node
OpenElements(d) ==
    {a \in Nodes(d) : /\ IsDesc(d, a, Len(d))
                      /\ d[a].tag \notin {"img", "#comment"}
                      /\ (a = 1 => Len(d) = 1)}

AddNode ==
    /\ pc = "build"
    /\ \E k \in Kinds, a \in OpenElements(doc) :
          /\ Cardinality({n \in Nodes(doc) : doc[n].tag \notin {"html", "body"}}) < MaxFree
          /\ doc' = Append(doc, Node(k.tag, a, k.text, k.tail, k.attrs))
    /\ given' = doc'
    /\ UNCHANGED <<pc, parser, sawPre, nEvents, ec>>

\* extract_content(html) is called
Call ==
    /\ pc = "build"
    /\ pc' = "call"
    /\ UNCHANGED <<doc, parser, sawPre, nEvents, ec, given>>

Init ==
    /\ pc = "build"
    /\ doc \in Roots
    /\ given = doc
    /\ ec = NoCall
    /\ parser = NewParser(FALSE)
    /\ sawPre = FALSE
    /\ nEvents = 0

Next == AddNode \/ Call \/ Extract

Spec == Init /\ [][Next]_vars

(***************************************************************************)
(* Properties of extract_content over the grown documents.                 *)
(***************************************************************************)
\* C1: no exception escapes extract_content: no step of the call ends in a
\* raise, whatever the document.
C1_NoExceptionEscapes == pc # "raised"

\* a string that is absent or holds only whitespace
AllWhitespace(str) == \A i \in 1..Len(str) : str[i] \in WS

\* an element that is childless, not an img, with blank text and blank tail
BlankLeaf(n) ==
    /\ doc[n].tag \notin {"#comment", "img"}
    /\ \A m \in Nodes(doc) : doc[m].par # n
    /\ AllWhitespace(doc[n].text)
    /\ AllWhitespace(doc[n].tail)

\* C3 as stated: when the loop of lines 351-361 has finished, no element of
\* the subtree of body, body itself included, is a blank childless non-img.
C3_NoBlankLeafInBody ==
    pc = "paywall" => \A n \in Subtree(doc, ec.body) : ~BlankLeaf(n)

\* C3: when the loop of lines 351-361 has finished, no element strictly below
\* body (below the root when there is no body) is a blank childless non-img;
\* body itself, which the loop cannot take out a second time, may be one.
C3_NoBlankLeafBelowBody ==
    pc = "paywall" => \A n \in Subtree(doc, ec.body) \ {ec.body} : ~BlankLeaf(n)

\* the loop ran three passes, took elements out and left others below body
C3_Witness ==
    /\ pc = "paywall"
    /\ ec.passes >= 3
    /\ Subtree(doc, ec.body) \ {ec.body} # {}
    /\ \E n \in Nodes(doc) : n # 1 /\ n # ec.body /\ doc[n].par = 0

\* the nodes that hang in a tree
Linked(d) == {n \in Nodes(d) : d[n].par # 0}

\* C4: every pass of the while loop of lines 351-361 takes at least one node
\* out of the tree or leaves work_to_do false and ends the loop, and the
\* number of passes never exceeds the number of elements of the document.
C4_PassRemovesOrEnds ==
    [][pc = "sanitize" =>
         /\ \/ Linked(doc') # Linked(doc) /\ Linked(doc') \subseteq Linked(doc)
            \/ ~ec'.work_to_do /\ pc' = "paywall"
         /\ ec'.passes <= Cardinality({n \in Nodes(doc) : IsElement(doc, n)})]_vars

\* the loop is still at work after two passes that took elements out
C4_Witness == pc = "sanitize" /\ ec.passes >= 2 /\ ec.work_to_do

(***************************************************************************)
(* Documents written as outlines: one row per node in document order, with *)
(* its depth; the parent of a row is the nearest earlier row one level up.  *)
(***************************************************************************)
Row(tag, depth, text, tail, attrs) ==
    [tag |-> tag, depth |-> depth, text |-> text, tail |-> tail, attrs |-> attrs]

ParentOf(rows, i) ==
    IF rows[i].depth = 0 THEN 0
    ELSE Max({j \in 1..(i - 1) : rows[j].depth = rows[i].depth - 1})

FromOutline(rows) ==
    [i \in 1..Len(rows) |->
        Node(rows[i].tag, ParentOf(rows, i), rows[i].text, rows[i].tail, rows[i].attrs)]

\* rows moved n levels down
Deeper(rows, n) == [i \in 1..Len(rows) |-> [rows[i] EXCEPT !.depth = @ + n]]

RECURSIVE Phrase(_)
\* n words of two letters
Phrase(n) == IF n = 1 THEN <<"a", "b">> ELSE <<"a", "b", " ">> \o Phrase(n - 1)

Newline == <<"\n">>

\* what can stand around the content: the root alone, or html with a body,
\* with or without a head before it; each is rows and the depth below them
Wrappers ==
    { [rows |-> <<Row("html", 0, <<>>, <<>>, NoAttrs),
                  Row("body", 1, <<>>, <<>>, NoAttrs)>>, depth |-> 2],
      [rows |-> <<Row("html", 0, <<>>, <<>>, NoAttrs),
                  Row("head", 1, <<>>, <<>>, NoAttrs),
                  Row("body", 1, <<>>, <<>>, NoAttrs)>>, depth |-> 2],
      [rows |-> <<Row("html", 0, <<>>, <<>>, NoAttrs),
                  Row("head", 1, <<>>, Newline, NoAttrs),
                  Row("title", 2, <<"t">>, <<>>, NoAttrs),
                  Row("body", 1, <<>>, <<>>, NoAttrs)>>, depth |-> 2] }

\* the state in which extract_content is called on the document d
Called(d) ==
    /\ pc = "call"
    /\ doc = d
    /\ given = d
    /\ ec = NoCall
    /\ parser = NewParser(FALSE)
    /\ sawPre = FALSE
    /\ nEvents = 0

(***************************************************************************)
(* Header recovery: body holds an h1, a nav with text and a div with one   *)
(* long paragraph.                                                         *)
(***************************************************************************)
HeaderDocs ==
    { FromOutline(w.rows \o
        <<Row("h1", w.depth, title, t1, NoAttrs),
          Row("nav", w.depth, navtext, t2, NoAttrs),
          Row("div", w.depth, <<>>, <<>>, cls),
          Row("p", w.depth + 1, Phrase(n), <<>>, NoAttrs)>>) :
        w \in Wrappers, title \in {<<"T">>, Phrase(2)}, t1 \in {<<>>, Newline},
        navtext \in {<<"x">>}, t2 \in {<<>>, Newline},
        cls \in {NoAttrs, "class" :> <<"m", "a", "i", "n">>}, n \in {6, 9} }

InitHeader == \E d \in HeaderDocs : Called(d)

SpecHeader == InitHeader /\ [][Extract]_vars

\* the tags of the fragments extract_content returned
ResultTags == [i \in 1..Len(ec.result) |-> doc[ec.result[i]].tag]

(***************************************************************************)
(* Gallery: the only content is a ul with two li, each holding one img     *)
(* with src and numeric dimensions, 400x300 and 200x150.                   *)
(***************************************************************************)
Dim(src, w, h) ==
    ("src" :> src) @@ ("width" :> w) @@ ("height" :> h)

GalleryDocs ==
    { FromOutline(w.rows \o
        <<Row("ul", w.depth, <<>>, <<>>, NoAttrs),
          Row("li", w.depth + 1, <<>>, t, NoAttrs),
          Row("img", w.depth + 2, <<>>, <<>>,
              Dim(src1, <<"4", "0", "0">>, <<"3", "0", "0">>) @@ alt),
          Row("li", w.depth + 1, <<>>, <<>>, NoAttrs),
          Row("img", w.depth + 2, <<>>, <<>>,
              Dim(<<"b", ".", "j", "p", "g">>, <<"2", "0", "0">>, <<"1", "5", "0">>))>>) :
        w \in Wrappers \cup {[rows |-> <<>>, depth |-> 0],
                             [rows |-> <<Row("html", 0, <<>>, <<>>, NoAttrs)>>,
                              depth |-> 1]},
        t \in {<<>>},
        src1 \in {<<"a", ".", "j", "p", "g">>, <<"/", "a">>},
        alt \in {NoAttrs, "alt" :> <<"x">>} }

InitGallery == \E d \in GalleryDocs : Called(d)

SpecGallery == InitGallery /\ [][Extract]_vars

(***************************************************************************)
(* Properties of the header recovery and gallery documents.                *)
(***************************************************************************)
\* C5 as stated: for body{h1, nav with text, div{p}} extract_content returns
\* exactly two fragments, the h1 followed by the p, and no nav.
C5_ReturnsHeadingAndParagraph == pc = "returned" => ResultTags = <<"h1", "p">>

\* C5: for body{h1, nav with text, div{p}} extract_content returns three
\* fragments: the h1, then the nav, which lines 520-524 harvest as a child
\* of the h1's parent, then the p.
C5_ReturnsHeadingNavParagraph == pc = "returned" => ResultTags = <<"h1", "nav", "p">>

\* the call returned after the walker wrote the p and the recovery took the
\* h1 out of body
C5_Witness ==
    /\ pc = "returned"
    /\ doc[ec.top].tag = "div"
    /\ Len(ec.content) = 1
    /\ \E n \in Nodes(doc) : doc[n].tag = "h1" /\ doc[n].par = 0 /\ given[n].par = ec.body

\* the first and the second li of the gallery, with their imgs
FirstLi == Min({n \in Nodes(given) : given[n].tag = "li"})

SecondLi == Max({n \in Nodes(given) : given[n].tag = "li"})

TheUl == Min({n \in Nodes(given) : given[n].tag = "ul"})

\* C6 as stated: for ul{li{img 400x300}, li{img 200x150}} the leader is the
\* ul, the weighting factor is 4 and the ul is returned as the one fragment.
C6_UlLeadsAndIsEmitted ==
    /\ pc \in {"walk", "recover", "clean", "returned"} =>
          ec.leader = TheUl /\ ec.weighing = 4
    /\ pc = "returned" => ec.result = <<TheUl>>

\* C6: for ul{li{img 400x300}, li{img 200x150}} the leader is the first li
\* (rank 100*7500*1 \div 6 against 0 for the ul, whose word count is 0), the
\* weighting factor is 2, the first li is the container and the 400x300 img
\* is returned as the one fragment.
C6_FirstLiLeadsAndImgIsEmitted ==
    /\ pc \in {"walk", "recover", "clean", "returned"} =>
          /\ ec.leader = FirstLi
          /\ ec.weighing = 2
          /\ ec.top = FirstLi
    /\ pc = "returned" =>
          /\ Len(ec.result) = 1
          /\ given[ec.result[1]].tag = "img"
          /\ given[ec.result[1]].par = FirstLi

\* the gallery was scored (ul, first li, second li) and the call returned
C6_Witness ==
    /\ pc = "returned"
    /\ Len(ec.topnodes) = 3
    /\ getval(Lookup(ec.topnodes, TheUl, <<0, 0, 0>>)) = 0
    /\ getval(Lookup(ec.topnodes, FirstLi, <<0, 0, 0>>)) >
          getval(Lookup(ec.topnodes, SecondLi, <<0, 0, 0>>))

(***************************************************************************)
(* Nested headings: body holds an h1, an h2 with inline content that may   *)
(* hold further headings, and a div with one long paragraph.               *)
(***************************************************************************)
NestedDocs ==
    { FromOutline(w.rows \o
        <<Row("h1", w.depth, <<"T">>, <<>>, NoAttrs),
          Row("h2", w.depth, <<"s">>, <<>>, NoAttrs)>> \o
        Deeper(inner \o <<Row(a, 0, <<"u">>, <<>>, NoAttrs),
                          Row(b, 0, <<"v">>, <<>>, NoAttrs)>>, w.depth + 1) \o
        <<Row("div", w.depth, <<>>, <<>>, NoAttrs),
          Row("p", w.depth + 1, Phrase(n), <<>>, NoAttrs)>>) :
        w \in Wrappers,
        inner \in {<<>>, <<Row("span", -1, <<>>, <<>>, NoAttrs)>>},
        a \in {"h3", "i"}, b \in {"b", "h4"}, n \in {6, 9} }

InitNested == \E d \in NestedDocs : Called(d)

SpecNested == InitNested /\ [][Extract]_vars

\* C2: in the list extract_content returns no fragment is identical to, or
\* lies inside, another fragment of the list.
C2_FragmentsDisjoint ==
    pc = "returned" =>
        \A i, j \in 1..Len(ec.result) :
            i # j => ~IsDesc(doc, ec.result[i], ec.result[j])

(***************************************************************************)
(* Paywall duplicates: body holds two adjacent siblings that carry          *)
(* amp-access, each a div with a nested paragraph and a paragraph.         *)
(***************************************************************************)
Access == {<<"v">>, <<>>}

GatedBlock(tag, access, depth, ta, tb) ==
    <<Row(tag, depth, <<>>, <<>>, "amp-access" :> access),
      Row("div", depth + 1, <<>>, <<>>, NoAttrs),
      Row("p", depth + 2, ta, <<>>, NoAttrs),
      Row("p", depth + 1, tb, <<>>, NoAttrs)>>

PaywallDocs ==
    { FromOutline(<<Row("html", 0, <<>>, <<>>, NoAttrs),
                    Row("body", 1, <<>>, <<>>, NoAttrs)>> \o
                  GatedBlock("div", access, 2, Phrase(a1), Phrase(b1)) \o
                  GatedBlock(tag, <<"v">>, 2, Phrase(a2), Phrase(b2))) :
        access \in Access, tag \in {"div", "section"},
        a1 \in 1..3, a2 \in 1..3, b1 \in 1..2, b2 \in 1..2 }

InitPaywall == \E d \in PaywallDocs : Called(d)

SpecPaywall == InitPaywall /\ [][Extract]_vars

\* e and its previous sibling p have the same tag and matching summaries
Duplicates(d, p, e) ==
    /\ p # 0
    /\ d[p].tag = d[e].tag
    /\ SummariesMatch(d, p, e)

\* the average text length per summary entry of a is above that of b
Denser(d, a, b) ==
    SumT(get_tree(d, a, 0).l) * Len(get_tree(d, b, 0).l) >
        SumT(get_tree(d, b, 0).l) * Len(get_tree(d, a, 0).l)

\* C9 as stated: of two adjacent same-tag siblings p, e that both carry
\* amp-access and have matching summaries, the detector removes the one
\* with the lower average, in whichever position; equal averages: both stay.
C9_RemovesPoorerEitherPosition ==
    [][pc = "paywall" =>
        \A e \in Nodes(doc) :
            LET p == getprevious(doc, e) IN
            (/\ doc[e].par # 0
             /\ Duplicates(doc, p, e)
             /\ "amp-access" \in DOMAIN doc[e].attrs
             /\ "amp-access" \in DOMAIN doc[p].attrs)
            => /\ Denser(doc, p, e) => doc'[e].par = 0 /\ doc'[p].par # 0
               /\ Denser(doc, e, p) => doc'[p].par = 0 /\ doc'[e].par # 0
               /\ (~Denser(doc, p, e) /\ ~Denser(doc, e, p)) =>
                     doc'[p].par # 0 /\ doc'[e].par # 0]_vars

\* C9: of two adjacent same-tag siblings p (first), e (second) with matching
\* summaries, where e carries amp-access and p a non-empty amp-access, the
\* detector removes e when p's average is strictly above e's and removes
\* nothing otherwise; p is never removed.
C9_RemovesSecondWhenFirstDenser ==
    [][pc = "paywall" =>
        \A e \in Nodes(doc) :
            LET p == getprevious(doc, e) IN
            (/\ doc[e].par # 0
             /\ Duplicates(doc, p, e)
             /\ "amp-access" \in DOMAIN doc[e].attrs
             /\ Get(doc, p, "amp-access") # <<>>)
            => /\ Denser(doc, p, e) => doc'[e].par = 0 /\ doc'[p].par # 0
               /\ ~Denser(doc, p, e) => doc'[p].par # 0 /\ doc'[e].par # 0]_vars

\* the detector took the second of two gated duplicates out of body
C9_Witness ==
    /\ pc = "score"
    /\ \E e \in Nodes(doc) :
          /\ doc[e].par = 0
          /\ given[e].par = ec.body
          /\ "amp-access" \in DOMAIN given[e].attrs
          /\ Duplicates(given, getprevious(given, e), e)
          /\ Denser(given, getprevious(given, e), e)

(***************************************************************************)
(* valuate on a growing tree: elements are added one at a time, and ec     *)
(* holds valuate(p) for every node p.                                      *)
(***************************************************************************)
MaxGrow == 4

GrowRoots ==
    { <<Node("div", 0, Phrase(2), <<>>, NoAttrs)>>,
      <<Node("ul", 0, <<>>, <<>>, NoAttrs)>> }

GrowKinds ==
    { [tag |-> "p", text |-> Phrase(2), tail |-> <<>>, attrs |-> NoAttrs],
      [tag |-> "p", text |-> Phrase(1), tail |-> <<" ">>, attrs |-> NoAttrs],
      [tag |-> "li", text |-> Newline, tail |-> <<>>, attrs |-> NoAttrs],
      [tag |-> "span", text |-> Phrase(1), tail |-> <<>>, attrs |-> NoAttrs] }

Valuations(d) == [p \in Nodes(d) |-> valuate(d, p)]

AddDescendant ==
    /\ pc = "grow"
    /\ Len(doc) < MaxGrow
    /\ \E k \in GrowKinds, a \in {n \in Nodes(doc) : IsDesc(doc, n, Len(doc))} :
          doc' = Append(doc, Node(k.tag, a, k.text, k.tail, k.attrs))
    /\ ec' = Valuations(doc')
    /\ given' = doc
    /\ UNCHANGED <<pc, parser, sawPre, nEvents>>

InitValuate ==
    /\ pc = "grow"
    /\ doc \in GrowRoots
    /\ given = doc
    /\ ec = Valuations(doc)
    /\ parser = NewParser(FALSE)
    /\ sawPre = FALSE
    /\ nEvents = 0

SpecValuate == InitValuate /\ [][AddDescendant]_vars

\* C7: adding an element d with categorise(d) > 0 as a descendant of p never
\* lowers getval(valuate(p)), whatever d's text and tail.
C7_ValuateMonotone ==
    [][pc = "grow" /\ categorise(doc', Len(doc')) > 0 =>
          \A p \in Nodes(doc) :
              IsDesc(doc', p, Len(doc')) => getval(ec'[p]) >= getval(ec[p])]_vars

(***************************************************************************)
(* clean_imgs on one img whose srcset lists up to three candidates.        *)
(***************************************************************************)
MaxCandidates == 3

Candidates ==
    { <<"a", " ", "3", "0", "0", "w">>, <<"b", " ", "6", "0", "0", "w">>,
      <<"c", " ", "1", "2", "0", "0", "w">>, <<"d", " ", "1", "0", "0", "w">>,
      <<"e", " ", "4", "0", "0", "w">>, <<"f", " ", "7", "0", "0", "w">>,
      <<"g">> }

RECURSIVE Listed(_)
\* candidates joined by ', '
Listed(cs) ==
    IF Len(cs) = 1 THEN cs[1] ELSE cs[1] \o <<",", " ">> \o Listed(Tail(cs))

\* the srcset strings: distinct candidates joined by ', '
Srcsets ==
    { Listed(cs) :
        cs \in { c \in UNION {[1..n -> Candidates] : n \in 1..MaxCandidates} :
                   \A i, j \in 1..Len(c) : i # j => c[i] # c[j] } }

ImgDocs ==
    { <<Node("img", 0, <<>>, <<>>, ("srcset" :> srcset) @@ src)>> :
        srcset \in Srcsets,
        src \in {NoAttrs, "src" :> <<"x">>, "src" :> <<"x", "?">>} }

\* clean_imgs(elem) is called on the img
CallCleanImgs ==
    /\ pc = "imgs"
    /\ LET r == clean_imgs([doc |-> doc, raised |-> FALSE], 1) IN
       IF r.raised THEN pc' = "raised" /\ doc' = doc
       ELSE pc' = "cleaned" /\ doc' = r.doc
    /\ UNCHANGED <<ec, given, parser, sawPre, nEvents>>

InitImgs ==
    /\ pc = "imgs"
    /\ doc \in ImgDocs
    /\ given = doc
    /\ ec = NoCall
    /\ parser = NewParser(FALSE)
    /\ sawPre = FALSE
    /\ nEvents = 0

SpecImgs == InitImgs /\ [][CallCleanImgs]_vars

\* the candidates of the img as it was given, sorted
GivenCandidates == SortedCandidates(Get(given, 1, "srcset"))

\* the position of the first candidate of width >= 600 when its predecessor
\* has a width >= 300, 0 when there is none
FirstWide ==
    LET ks == {k \in 2..Len(GivenCandidates) :
                 /\ GivenCandidates[k][1] >= 600
                 /\ GivenCandidates[k - 1][1] < 600
                 /\ GivenCandidates[k - 1][1] >= 300}
    IN IF ks = {} THEN 0 ELSE Min(ks)

\* C8 as stated: when the sorted candidates have a first entry of width >=
\* 600 whose predecessor has width >= 300, clean_imgs sets src to the url
\* of that first entry (b for 300w a, 600w b, 1200w c).
C8_PicksFirstWide ==
    pc = "cleaned" /\ categorise(given, 1) >= 0 /\ FirstWide # 0 =>
        Get(doc, 1, "src") = GivenCandidates[FirstWide][2]

\* C8: when the sorted candidates have a first entry of width >= 600 whose
\* predecessor has width >= 300, clean_imgs sets src to the url of that
\* predecessor (a for 300w a, 600w b, 1200w c) and empties width, height
\* and srcset.
C8_PicksPredecessorOfFirstWide ==
    pc = "cleaned" /\ categorise(given, 1) >= 0 /\ FirstWide # 0 =>
        /\ Get(doc, 1, "src") = GivenCandidates[FirstWide - 1][2]
        /\ Get(doc, 1, "srcset") = <<>>
        /\ Get(doc, 1, "width") = <<>>
        /\ Get(doc, 1, "height") = <<>>

\* clean_imgs ran on 300w a, 600w b, 1200w c
C8_Witness ==
    /\ pc = "cleaned"
    /\ categorise(given, 1) >= 0
    /\ GivenCandidates = << <<300, <<"a">> >>, <<600, <<"b">> >>, <<1200, <<"c">> >> >>
    /\ FirstWide = 2

=============================================================================
